---- MODULE Spec2Model ----
(***************************************************************************)
(* Model of the baseline-JPEG decode orchestrator of FeV                   *)
(* (JpegDecodeSession::decode, src/src/jpeg.rs) together with the table    *)
(* and parameter builders it folds the segments into, and the hand-off of  *)
(* the built blocks to the libva context (src/src/context.rs).             *)
(***************************************************************************)
EXTENDS Integers, Sequences, FiniteSets, TLC

(***************************************************************************)
(* Bounds of the model.                                                    *)
(***************************************************************************)
\* segments the scanner yields in one decode call before the input ends
MaxSegs == 3
\* tables carried by one DQT or DHT segment
MaxTables == 2
\* pieces an input byte buffer is put together from
MaxChunks == 4

(***************************************************************************)
(* Program constants.                                                      *)
(***************************************************************************)
SOF0 == 192
NUM_QUANT_SLOTS == 4
NUM_HUFF_SLOTS == 2
NUM_CODE_LENGTHS == 16
DC_VALUES_CAP == 12
AC_VALUES_CAP == 162
QK_LEN == 64
SCAN_COMPONENTS_CAP == 4
YUV == 0

\* Option<T>: None is the empty sequence, Some(x) the one-element sequence
None == <<>>
Some(x) == <<x>>

Zeros(n) == [i \in 1..n |-> 0]

\* dst[..src.len()].copy_from_slice(src): the tail of dst is left as it was
CopyPrefix(dst, src) == src \o SubSeq(dst, Len(src) + 1, Len(dst))

Max(a, b) == IF a >= b THEN a ELSE b

(***************************************************************************)
(* IQMatrixBuffer                                                          *)
(***************************************************************************)
IQMatrixBuffer_new ==
    [load_quantiser_table |-> [i \in 0..(NUM_QUANT_SLOTS - 1) |-> 0],
     quantiser_table      |-> [i \in 0..(NUM_QUANT_SLOTS - 1) |-> Zeros(QK_LEN)]]

\* assert!(index <= 3)
set_quantization_table_asserts(index) == index <= 3

\* variant: every slot is marked for reloading
set_quantization_table_MarkAll(iq, index, table_data) ==
    [load_quantiser_table |-> [i \in 0..(NUM_QUANT_SLOTS - 1) |-> 1],
     quantiser_table      |-> [iq.quantiser_table EXCEPT ![index] = table_data]]

set_quantization_table(iq, index, table_data) ==
    [load_quantiser_table |-> [iq.load_quantiser_table EXCEPT ![index] = 1],
     quantiser_table      |-> [iq.quantiser_table EXCEPT ![index] = table_data]]

(***************************************************************************)
(* HuffmanTable and HuffmanTableBuffer                                     *)
(***************************************************************************)
HuffmanTable_zeroed ==
    [num_dc_codes |-> Zeros(NUM_CODE_LENGTHS),
     dc_values    |-> Zeros(DC_VALUES_CAP),
     num_ac_codes |-> Zeros(NUM_CODE_LENGTHS),
     ac_values    |-> Zeros(AC_VALUES_CAP)]

\* the two assert! of set_dc_table
set_dc_table_asserts(Li, Vij) ==
    Len(Li) <= NUM_CODE_LENGTHS /\ Len(Vij) <= DC_VALUES_CAP

set_dc_table(tbl, Li, Vij) ==
    [tbl EXCEPT !.num_dc_codes = CopyPrefix(tbl.num_dc_codes, Li),
                !.dc_values    = CopyPrefix(tbl.dc_values, Vij)]

\* the two assert! of set_ac_table
set_ac_table_asserts(Li, Vij) ==
    Len(Li) <= NUM_CODE_LENGTHS /\ Len(Vij) <= AC_VALUES_CAP

set_ac_table(tbl, Li, Vij) ==
    [tbl EXCEPT !.num_ac_codes = CopyPrefix(tbl.num_ac_codes, Li),
                !.ac_values    = CopyPrefix(tbl.ac_values, Vij)]

LumDcLi ==
    <<
       0, 1, 5, 1, 1, 1, 1, 1, 1, 0, 0, 0
    >>
LumDcVij ==
    <<
       0, 1, 2, 3, 4, 5, 6, 7, 8, 9, 10, 11
    >>
LumAcLi ==
    <<
       0, 2, 1, 3, 3, 2, 4, 3, 5, 5, 4, 4, 0, 0, 1, 125
    >>
LumAcVij ==
    <<
       1, 2, 3, 0, 4, 17, 5, 18, 33, 49, 65, 6, 19, 81, 97, 7,
       34, 113, 20, 50, 129, 145, 161, 8, 35, 66, 177, 193, 21, 82, 209, 240,
       36, 51, 98, 114, 130, 9, 10, 22, 23, 24, 25, 26, 37, 38, 39, 40,
       41, 42, 52, 53, 54, 55, 56, 57, 58, 67, 68, 69, 70, 71, 72, 73,
       74, 83, 84, 85, 86, 87, 88, 89, 90, 99, 100, 101, 102, 103, 104, 105,
       106, 115, 116, 117, 118, 119, 120, 121, 122, 131, 132, 133, 134, 135, 136, 137,
       138, 146, 147, 148, 149, 150, 151, 152, 153, 154, 162, 163, 164, 165, 166, 167,
       168, 169, 170, 178, 179, 180, 181, 182, 183, 184, 185, 186, 194, 195, 196, 197,
       198, 199, 200, 201, 202, 210, 211, 212, 213, 214, 215, 216, 217, 218, 225, 226,
       227, 228, 229, 230, 231, 232, 233, 234, 241, 242, 243, 244, 245, 246, 247, 248,
       249, 250
    >>
ChrDcLi ==
    <<
       0, 3, 1, 1, 1, 1, 1, 1, 1, 1, 1, 0
    >>
ChrDcVij ==
    <<
       0, 1, 2, 3, 4, 5, 6, 7, 8, 9, 10, 11
    >>
ChrAcLi ==
    <<
       0, 2, 1, 2, 4, 4, 3, 4, 7, 5, 4, 4, 0, 1, 2, 119
    >>
ChrAcVij ==
    <<
       0, 1, 2, 3, 17, 4, 5, 33, 49, 6, 18, 65, 81, 7, 97, 113,
       19, 34, 50, 129, 8, 20, 66, 145, 161, 177, 193, 9, 35, 51, 82, 240,
       21, 98, 114, 209, 10, 22, 36, 52, 225, 37, 241, 23, 24, 25, 26, 38,
       39, 40, 41, 42, 53, 54, 55, 56, 57, 58, 67, 68, 69, 70, 71, 72,
       73, 74, 83, 84, 85, 86, 87, 88, 89, 90, 99, 100, 101, 102, 103, 104,
       105, 106, 115, 116, 117, 118, 119, 120, 121, 122, 130, 131, 132, 133, 134, 135,
       136, 137, 138, 146, 147, 148, 149, 150, 151, 152, 153, 154, 162, 163, 164, 165,
       166, 167, 168, 169, 170, 178, 179, 180, 181, 182, 183, 184, 185, 186, 194, 195,
       196, 197, 198, 199, 200, 201, 202, 210, 211, 212, 213, 214, 215, 216, 217, 218,
       226, 227, 228, 229, 230, 231, 232, 233, 234, 242, 243, 244, 245, 246, 247, 248,
       249, 250
    >>

default_luminance ==
    set_ac_table(set_dc_table(HuffmanTable_zeroed, LumDcLi, LumDcVij),
                 LumAcLi, LumAcVij)

default_chrominance ==
    set_ac_table(set_dc_table(HuffmanTable_zeroed, ChrDcLi, ChrDcVij),
                 ChrAcLi, ChrAcVij)

HuffmanTableBuffer_zeroed ==
    [load_huffman_table |-> [i \in 0..(NUM_HUFF_SLOTS - 1) |-> 0],
     huffman_table      |-> [i \in 0..(NUM_HUFF_SLOTS - 1) |-> HuffmanTable_zeroed]]

set_huffman_table(buf, index, tbl) ==
    [load_huffman_table |-> [buf.load_huffman_table EXCEPT ![index] = 1],
     huffman_table      |-> [buf.huffman_table EXCEPT ![index] = tbl]]

default_tables ==
    set_huffman_table(
        set_huffman_table(HuffmanTableBuffer_zeroed, 0, default_luminance),
        1, default_chrominance)

\* huffman_table_mut marks the slot as modified before handing out the table
huffman_table_mut_mark(buf, index) ==
    [buf EXCEPT !.load_huffman_table[index] = 1]

\* assert!(index <= 1) of set_huffman_table and huffman_table_mut
huffman_index_asserts(index) == index <= 1

\* variant: only the flag of slot 0 is reset
clear_modified_First(buf) ==
    [buf EXCEPT !.load_huffman_table[0] = 0]

clear_modified(buf) ==
    [buf EXCEPT !.load_huffman_table = [i \in 0..(NUM_HUFF_SLOTS - 1) |-> 0]]

(***************************************************************************)
(* PictureParameterBuffer.  The 255-entry component array is zeroed and    *)
(* only written at index num_components, so it is kept as the sequence of  *)
(* the entries pushed so far.                                              *)
(***************************************************************************)
PictureParameterBuffer_new(picture_width, picture_height, color_space) ==
    [picture_width  |-> picture_width,
     picture_height |-> picture_height,
     components     |-> <<>>,
     num_components |-> 0,
     color_space    |-> color_space]

\* variant: the entry is written at index 0 whatever num_components is
PictureParameterBuffer_push_component_AtZero(pp, Ci, Hi, Vi, Tqi) ==
    [pp EXCEPT !.num_components = pp.num_components + 1,
               !.components =
                   <<[component_id |-> Ci, h_sampling_factor |-> Hi,
                      v_sampling_factor |-> Vi, quantiser_table_selector |-> Tqi]>>
                   \o [k \in 1..Len(pp.components) |->
                          [component_id |-> 0, h_sampling_factor |-> 0,
                           v_sampling_factor |-> 0,
                           quantiser_table_selector |-> 0]]]

PictureParameterBuffer_push_component(pp, Ci, Hi, Vi, Tqi) ==
    [pp EXCEPT !.num_components = pp.num_components + 1,
               !.components = Append(pp.components,
                   [component_id |-> Ci, h_sampling_factor |-> Hi,
                    v_sampling_factor |-> Vi, quantiser_table_selector |-> Tqi])]

(***************************************************************************)
(* SliceParameterBuffer                                                    *)
(***************************************************************************)
ScanComponent_zeroed ==
    [component_selector |-> 0, dc_table_selector |-> 0, ac_table_selector |-> 0]

SliceParameterBufferBase_new(slice_data_size) ==
    [slice_data_size   |-> slice_data_size,
     slice_data_offset |-> 0,
     slice_data_flags  |-> "ALL"]

SliceParameterBuffer_new(base, Ri, num_mcus) ==
    [base             |-> base,
     components       |-> [i \in 0..(SCAN_COMPONENTS_CAP - 1) |-> ScanComponent_zeroed],
     num_components   |-> 0,
     restart_interval |-> Ri,
     num_mcus         |-> num_mcus]

\* self.components[index] panics when index is outside the 4-entry array
SliceParameterBuffer_push_in_bounds(sp) == sp.num_components < SCAN_COMPONENTS_CAP

SliceParameterBuffer_push_component(sp, Csj, Tdj, Taj) ==
    [sp EXCEPT !.num_components = sp.num_components + 1,
               !.components[sp.num_components] =
                   [component_selector |-> Csj, dc_table_selector |-> Tdj,
                    ac_table_selector |-> Taj]]

(***************************************************************************)
(* Segments handed to decode by JpegParser::next_segment.  The scanner     *)
(* reads the fields at fixed offsets without validating them: a selector   *)
(* or precision is whatever the 4-bit field holds.                         *)
(***************************************************************************)
QkA == [i \in 1..QK_LEN |-> i]
QkVals == {QkA}
PqVals == {0, 1}
TqVals == {0, 4}

DqtTableVals == [Pq : PqVals, Tq : TqVals, Qk : QkVals]

\* a one-value table, and a table of 13 values
LiShort == [i \in 1..NUM_CODE_LENGTHS |-> IF i = 1 THEN 1 ELSE 0]
LiLong  == [i \in 1..NUM_CODE_LENGTHS |-> IF i = 4 THEN 13 ELSE 0]
VijShort == <<7>>
VijLong  == [i \in 1..13 |-> 20 + i]

DhtTableVals ==
    { [Tc |-> 0, Th |-> 0, Li |-> LiShort, Vij |-> VijShort],
      [Tc |-> 1, Th |-> 1, Li |-> LiLong,  Vij |-> VijLong],
      [Tc |-> 2, Th |-> 0, Li |-> LiShort, Vij |-> VijShort],
      [Tc |-> 0, Th |-> 2, Li |-> LiShort, Vij |-> VijShort] }

TableLists(S) == UNION { [1..n -> S] : n \in 1..MaxTables }
DqtLists == TableLists(DqtTableVals)
DhtLists == TableLists(DhtTableVals)

RiVals == {0, 5}

\* the sizes a session is created with, as <<width, height>>
Sizes == {<<17, 9>>, <<16, 16>>}
\* frame components as <<Hi, Vi>>: full resolution, horizontally doubled, and
\* the (invalid) factor 0
FrameComponent(Ci, f) == [Ci |-> Ci, Hi |-> f[1], Vi |-> f[2], Tqi |-> Ci - 1]
FrameComponentLists ==
    { <<>>,
      <<FrameComponent(1, <<1, 1>>)>>,
      <<FrameComponent(1, <<2, 1>>)>>,
      <<FrameComponent(1, <<0, 0>>)>>,
      <<FrameComponent(1, <<2, 1>>), FrameComponent(2, <<1, 1>>)>>,
      <<FrameComponent(1, <<1, 1>>), FrameComponent(2, <<2, 1>>)>> }
\* SOF0 and SOF2 (progressive); 8-bit and 12-bit samples
SofMarkerVals == {SOF0, 194}
PrecisionVals == {8, 12}
SofVals ==
    { [sof |-> m, P |-> p, Y |-> d[2], X |-> d[1], components |-> c] :
        m \in SofMarkerVals, p \in PrecisionVals, d \in Sizes,
        c \in FrameComponentLists }

\* scans of 1, 2 and 5 components (the slice parameters hold 4)
ScanComponentCounts == {1, 2, 5}
ScanComponentList(n) ==
    [j \in 1..n |-> [Csj |-> j, Tdj |-> j % 2, Taj |-> (j + 1) % 2]]
ScanDataVals == {<<1>>, <<1, 255, 0>>}
\* <<Ss, Se, Ah, Al>>: the baseline values, and each field off in turn
ScanFieldVals ==
    {<<0, 63, 0, 0>>, <<1, 63, 0, 0>>, <<0, 62, 0, 0>>, <<0, 63, 1, 0>>,
     <<0, 63, 0, 1>>}
SosVals ==
    { [components |-> ScanComponentList(n), Ss |-> f[1], Se |-> f[2],
       Ah |-> f[3], Al |-> f[4], data |-> d] :
        n \in ScanComponentCounts, f \in ScanFieldVals, d \in ScanDataVals }

OtherMarkers == {"Soi", "App0"}

(***************************************************************************)
(* The arms of the match in JpegDecodeSession::decode.  Each returns the   *)
(* updated locals and res: "ok", the error it bails with, or the panic     *)
(* that aborts the call.                                                   *)
(***************************************************************************)
\* variant: the precision is not looked at, the table is stored as 8-bit
DqtTable_NoPqCheck(iq, dqt) ==
    IF ~set_quantization_table_asserts(dqt.Tq)
    THEN [iqbuf |-> iq, res |-> "PANIC_IQ_INDEX"]
    ELSE [iqbuf |-> set_quantization_table(iq, dqt.Tq, dqt.Qk), res |-> "ok"]

DqtTable(iq, dqt) ==
    IF dqt.Pq # 0
    THEN [iqbuf |-> iq, res |-> "E_DQT_PQ"]
    ELSE IF ~set_quantization_table_asserts(dqt.Tq)
    THEN [iqbuf |-> iq, res |-> "PANIC_IQ_INDEX"]
    ELSE [iqbuf |-> set_quantization_table(iq, dqt.Tq, dqt.Qk), res |-> "ok"]

RECURSIVE DqtArm(_, _)
DqtArm(iq, tables) ==
    IF tables = <<>>
    THEN [iqbuf |-> iq, res |-> "ok"]
    ELSE LET r == DqtTable(iq, Head(tables))
         IN  IF r.res = "ok" THEN DqtArm(r.iqbuf, Tail(tables)) ELSE r

\* variant: a destination above 1 falls back to slot 0 instead of failing
DhtTable_SlotFallback(buf, table) ==
    LET th     == IF table.Th > 1 THEN 0 ELSE table.Th
        marked == huffman_table_mut_mark(buf, th)
        tbl    == marked.huffman_table[th]
    IN  CASE table.Tc = 0 ->
               IF set_dc_table_asserts(table.Li, table.Vij)
               THEN [dhtbuf |-> [marked EXCEPT !.huffman_table[th] =
                                    set_dc_table(tbl, table.Li, table.Vij)],
                     res |-> "ok"]
               ELSE [dhtbuf |-> marked, res |-> "PANIC_DC_VALUES"]
          [] table.Tc = 1 ->
               IF set_ac_table_asserts(table.Li, table.Vij)
               THEN [dhtbuf |-> [marked EXCEPT !.huffman_table[th] =
                                    set_ac_table(tbl, table.Li, table.Vij)],
                     res |-> "ok"]
               ELSE [dhtbuf |-> marked, res |-> "PANIC_AC_VALUES"]
          [] OTHER -> [dhtbuf |-> marked, res |-> "E_DHT_CLASS"]

DhtTable(buf, table) ==
    IF table.Th > 1
    THEN [dhtbuf |-> buf, res |-> "E_DHT_SLOT"]
    ELSE LET marked == huffman_table_mut_mark(buf, table.Th)
             tbl    == marked.huffman_table[table.Th]
         IN  CASE table.Tc = 0 ->
                    IF set_dc_table_asserts(table.Li, table.Vij)
                    THEN [dhtbuf |-> [marked EXCEPT !.huffman_table[table.Th] =
                                         set_dc_table(tbl, table.Li, table.Vij)],
                          res |-> "ok"]
                    ELSE [dhtbuf |-> marked, res |-> "PANIC_DC_VALUES"]
               [] table.Tc = 1 ->
                    IF set_ac_table_asserts(table.Li, table.Vij)
                    THEN [dhtbuf |-> [marked EXCEPT !.huffman_table[table.Th] =
                                         set_ac_table(tbl, table.Li, table.Vij)],
                          res |-> "ok"]
                    ELSE [dhtbuf |-> marked, res |-> "PANIC_AC_VALUES"]
               [] OTHER -> [dhtbuf |-> marked, res |-> "E_DHT_CLASS"]

RECURSIVE DhtArm(_, _)
DhtArm(buf, tables) ==
    IF tables = <<>>
    THEN [dhtbuf |-> buf, res |-> "ok"]
    ELSE LET r == DhtTable(buf, Head(tables))
         IN  IF r.res = "ok" THEN DhtArm(r.dhtbuf, Tail(tables)) ELSE r

\* variant: the sample precision is not checked
SofCheck_NoPrecision(sof, w, h) ==
    IF sof.sof # SOF0 THEN "E_NOT_BASELINE"
    ELSE IF sof.Y # h \/ sof.X # w THEN "E_DIMENSION"
    ELSE "ok"

\* variant: only the width is compared with the session's
SofCheck_WidthOnly(sof, w, h) ==
    IF sof.sof # SOF0 THEN "E_NOT_BASELINE"
    ELSE IF sof.P # 8 THEN "E_PRECISION"
    ELSE IF sof.X # w THEN "E_DIMENSION"
    ELSE "ok"

\* the three checks at the head of the SOF arm
SofCheck(sof, w, h) ==
    IF sof.sof # SOF0 THEN "E_NOT_BASELINE"
    ELSE IF sof.P # 8 THEN "E_PRECISION"
    ELSE IF sof.Y # h \/ sof.X # w THEN "E_DIMENSION"
    ELSE "ok"

\* the loop over sof.components(): push the component, raise the maxima
RECURSIVE SofComponents(_, _)
SofComponents(acc, comps) ==
    IF comps = <<>>
    THEN acc
    ELSE LET c == Head(comps)
         IN  SofComponents(
                 [buf |-> PictureParameterBuffer_push_component(
                              acc.buf, c.Ci, c.Hi, c.Vi, c.Tqi),
                  max_h_factor |-> Max(c.Hi, acc.max_h_factor),
                  max_v_factor |-> Max(c.Vi, acc.max_v_factor)],
                 Tail(comps))

\* the two checks at the head of the SOS arm
SosCheck(sos) ==
    IF sos.Ss # 0 \/ sos.Se # 63 THEN "E_SOS_SPECTRAL"
    ELSE IF sos.Ah # 0 \/ sos.Al # 0 THEN "E_SOS_APPROX"
    ELSE "ok"

\* (dim + factor * 8 - 1) / (factor * 8).  The operands are u32 made from a
\* u16 dimension and a u8 factor, so no step of it wraps; factor = 0 divides
\* by zero and is handled by the caller.
McuCount(dim, factor) ==
    ((dim + factor * 8) - 1) \div (factor * 8)

NumMcus(w, h, mh, mv) == McuCount(w, mh) * McuCount(h, mv)

\* the loop over sos.components()
RECURSIVE SosComponents(_, _)
SosComponents(sp, comps) ==
    IF comps = <<>>
    THEN [params |-> sp, res |-> "ok"]
    ELSE IF ~SliceParameterBuffer_push_in_bounds(sp)
    THEN [params |-> sp, res |-> "PANIC_SCAN_COMPONENTS"]
    ELSE LET c == Head(comps)
         IN  SosComponents(
                 SliceParameterBuffer_push_component(sp, c.Csj, c.Tdj, c.Taj),
                 Tail(comps))

\* variant: num_mcus is computed before the header fields are validated
SosArm_ComputeFirst(sos, w, h, mh, mv, ri) ==
    IF mh = 0 \/ mv = 0
    THEN [slice |-> None, res |-> "PANIC_DIV_ZERO"]
    ELSE IF SosCheck(sos) # "ok"
    THEN [slice |-> None, res |-> SosCheck(sos)]
    ELSE LET r == SosComponents(
                      SliceParameterBuffer_new(
                          SliceParameterBufferBase_new(Len(sos.data)),
                          ri, NumMcus(w, h, mh, mv)),
                      sos.components)
         IN  IF r.res = "ok"
             THEN [slice |-> Some([params |-> r.params, data |-> sos.data]),
                   res |-> "ok"]
             ELSE [slice |-> None, res |-> r.res]

SosArm(sos, w, h, mh, mv, ri) ==
    IF SosCheck(sos) # "ok"
    THEN [slice |-> None, res |-> SosCheck(sos)]
    ELSE IF mh = 0 \/ mv = 0
    THEN [slice |-> None, res |-> "PANIC_DIV_ZERO"]
    ELSE LET r == SosComponents(
                      SliceParameterBuffer_new(
                          SliceParameterBufferBase_new(Len(sos.data)),
                          ri, NumMcus(w, h, mh, mv)),
                      sos.components)
         IN  IF r.res = "ok"
             THEN [slice |-> Some([params |-> r.params, data |-> sos.data]),
                   res |-> "ok"]
             ELSE [slice |-> None, res |-> r.res]

\* variant: only the frame header is required
Completeness_NoSosCheck(pp, sl) ==
    IF pp = None THEN "E_MISSING_SOF" ELSE "ok"

\* the two let-else after the loop
Completeness(pp, sl) ==
    IF pp = None THEN "E_MISSING_SOF"
    ELSE IF sl = None THEN "E_MISSING_SOS"
    ELSE "ok"

(***************************************************************************)
(* State.                                                                  *)
(*   width, height      the session's size (JpegDecodeSession::new)        *)
(*   pc                 position of the decode call                        *)
(*   dhtbuf .. iqbuf    the locals of decode                               *)
(*   buffers            the libva buffers created so far in this call      *)
(*   picture, rendered  the libva operation of this call and the buffers   *)
(*                      handed to it by render_picture                     *)
(*   result             "none" while running, then "Ok", the error         *)
(*                      returned or the panic that aborted the call        *)
(* History of the running call: nseg segments dispatched, sofSeen/sosSeen  *)
(* SOF/SOS segments among them, the kinds of segment seen, and how the     *)
(* loop was left.                                                          *)
(***************************************************************************)
VARIABLES width, height, pc,
          dhtbuf, max_h_factor, max_v_factor, restart_interval,
          ppbuf, slice, iqbuf,
          buffers, picture, rendered, result,
          nseg, sofSeen, sosSeen, seen, loopExit

(***************************************************************************)
(* The table builders used on their own, outside a decode call:            *)
(*   qbuilder, hbuilder  an IQMatrixBuffer and a HuffmanTableBuffer        *)
(*   qwritten, hwritten  the slots written since the builder was made or   *)
(*                       last cleared                                      *)
(*   bresult             outcome of the last builder call: "none", "ok",   *)
(*                       or the assertion that aborted it                  *)
(***************************************************************************)
VARIABLES qbuilder, hbuilder, qwritten, hwritten, bresult

builders == <<qbuilder, hbuilder, qwritten, hwritten, bresult>>

(***************************************************************************)
(* The segment loop of decode over the bytes of its input:                 *)
(*   jpeg     the byte buffer decode was given                             *)
(*   cursor   offset in jpeg the scanner goes on from                      *)
(*   spc      "idle", "loop" while next_segment is being called, "done"    *)
(*   sresult  how the loop ended: "Eoi", "None" or the scanner's error     *)
(*   segs     the segments the scanner has yielded, in the order yielded   *)
(*   slice_data  the scan data as examples/jpeg-decode.rs cuts it out of   *)
(*               jpeg once its own loop has met EOI                        *)
(***************************************************************************)
VARIABLES jpeg, cursor, spc, sresult, segs, slice_data

scanner == <<jpeg, cursor, spc, sresult, segs, slice_data>>

(***************************************************************************)
(* JpegInfo::new, which reads the size of an image before a session is     *)
(* made for it:                                                            *)
(*   ipc      "idle", "soi" (the first segment is read next), "sof" (in    *)
(*            the loop that looks for the frame header), "done"            *)
(*   ifirst   what the first call of next_segment returned: "none" before  *)
(*            it, the kind of the segment, "None" or "Err"                 *)
(*   ipassed  the kinds of the segments the loop has passed over           *)
(*   isof     the frame header the loop broke with                         *)
(*   iresult  the value returned: tag "Ok" with width and height, or an    *)
(*            error; tag "none" while running                              *)
(***************************************************************************)
VARIABLES ipc, ifirst, ipassed, isof, iresult

info == <<ipc, ifirst, ipassed, isof, iresult>>
standalone == <<builders, scanner, info>>

session == <<width, height>>
locals  == <<dhtbuf, max_h_factor, max_v_factor, restart_interval,
             ppbuf, slice, iqbuf>>
libva   == <<buffers, picture, rendered>>
history == <<nseg, sofSeen, sosSeen, seen, loopExit>>
vars    == <<session, pc, locals, libva, result, history, standalone>>

\* no byte buffer is being scanned
ScannerIdle ==
    /\ jpeg = <<>>
    /\ cursor = 0
    /\ spc = "idle"
    /\ sresult = "none"
    /\ segs = <<>>
    /\ slice_data = <<>>

NoInfo == [tag |-> "none", width |-> 0, height |-> 0]

\* JpegInfo::new has not been called
InfoIdle ==
    /\ ipc = "idle"
    /\ ifirst = "none"
    /\ ipassed = <<>>
    /\ isof = None
    /\ iresult = NoInfo

\* the builders as constructed
BuildersInit ==
    /\ qbuilder = IQMatrixBuffer_new
    /\ hbuilder = HuffmanTableBuffer_zeroed
    /\ qwritten = {}
    /\ hwritten = {}
    /\ bresult = "none"

\* a session of one of the sizes, on which decode has not been called
SessionInit ==
    /\ \E d \in Sizes : width = d[1] /\ height = d[2]
    /\ pc = "idle"
    /\ dhtbuf = HuffmanTableBuffer_zeroed
    /\ max_h_factor = 0
    /\ max_v_factor = 0
    /\ restart_interval = 0
    /\ ppbuf = None
    /\ slice = None
    /\ iqbuf = IQMatrixBuffer_new
    /\ buffers = <<>>
    /\ picture = "none"
    /\ rendered = <<>>
    /\ result = "none"
    /\ nseg = 0
    /\ sofSeen = 0
    /\ sosSeen = 0
    /\ seen = {}
    /\ loopExit = "none"

Init ==
    /\ SessionInit
    /\ BuildersInit
    /\ ScannerIdle
    /\ InfoIdle

\* variant: the sampling maxima live on from the call before
Decode_KeepsMaxima ==
    /\ pc \in {"idle", "done"}
    /\ pc' = "loop"
    /\ dhtbuf' = HuffmanTableBuffer_zeroed
    /\ restart_interval' = 0
    /\ ppbuf' = None
    /\ slice' = None
    /\ iqbuf' = IQMatrixBuffer_new
    /\ buffers' = <<>>
    /\ picture' = "none"
    /\ rendered' = <<>>
    /\ result' = "none"
    /\ nseg' = 0
    /\ sofSeen' = 0
    /\ sosSeen' = 0
    /\ seen' = {}
    /\ loopExit' = "none"
    /\ UNCHANGED <<max_h_factor, max_v_factor, session, standalone>>

\* decode is entered: the locals are created as declared at its head
Decode ==
    /\ pc \in {"idle", "done"}
    /\ pc' = "loop"
    /\ dhtbuf' = HuffmanTableBuffer_zeroed
    /\ max_h_factor' = 0
    /\ max_v_factor' = 0
    /\ restart_interval' = 0
    /\ ppbuf' = None
    /\ slice' = None
    /\ iqbuf' = IQMatrixBuffer_new
    /\ buffers' = <<>>
    /\ picture' = "none"
    /\ rendered' = <<>>
    /\ result' = "none"
    /\ nseg' = 0
    /\ sofSeen' = 0
    /\ sosSeen' = 0
    /\ seen' = {}
    /\ loopExit' = "none"
    /\ UNCHANGED <<session, standalone>>

\* the call returns Err(res) or is aborted by the panic res
Return(res) ==
    /\ pc' = "done"
    /\ result' = res

\* next_segment returned Some(segment) of the given kind
Dispatch(kind) ==
    /\ pc = "loop"
    /\ nseg < MaxSegs
    /\ nseg' = nseg + 1
    /\ seen' = seen \cup {kind}
    /\ sofSeen' = IF kind = "Sof" THEN sofSeen + 1 ELSE sofSeen
    /\ sosSeen' = IF kind = "Sos" THEN sosSeen + 1 ELSE sosSeen
    /\ UNCHANGED <<session, libva, loopExit, standalone>>

\* variant: the error is noted and the loop goes on
Continue_Swallow(res) ==
    /\ pc' = "loop"
    /\ result' = IF res = "ok" THEN result ELSE res

\* after an arm: go round the loop, or leave with the error / panic
Continue(res) ==
    IF res = "ok"
    THEN /\ pc' = "loop"
         /\ result' = result
    ELSE Return(res)

SegDqt(tables) ==
    /\ Dispatch("Dqt")
    /\ UNCHANGED <<dhtbuf, max_h_factor, max_v_factor, restart_interval,
                   ppbuf, slice>>
    /\ LET r == DqtArm(iqbuf, tables)
       IN  /\ Continue(r.res)
           /\ iqbuf' = r.iqbuf

SegDht(tables) ==
    /\ Dispatch("Dht")
    /\ UNCHANGED <<max_h_factor, max_v_factor, restart_interval,
                   ppbuf, slice, iqbuf>>
    /\ LET r == DhtArm(dhtbuf, tables)
       IN  /\ Continue(r.res)
           /\ dhtbuf' = r.dhtbuf

\* variant: the first restart interval of the input is kept
SegDri_KeepFirst(Ri) ==
    /\ Dispatch("Dri")
    /\ restart_interval' = IF restart_interval = 0 THEN Ri ELSE restart_interval
    /\ Continue("ok")
    /\ UNCHANGED <<dhtbuf, max_h_factor, max_v_factor, ppbuf, slice, iqbuf>>

SegDri(Ri) ==
    /\ Dispatch("Dri")
    /\ restart_interval' = Ri
    /\ Continue("ok")
    /\ UNCHANGED <<dhtbuf, max_h_factor, max_v_factor, ppbuf, slice, iqbuf>>

SegSof(sof) ==
    /\ Dispatch("Sof")
    /\ LET chk == SofCheck(sof, width, height)
           r   == SofComponents(
                      [buf |-> PictureParameterBuffer_new(sof.X, sof.Y, YUV),
                       max_h_factor |-> max_h_factor,
                       max_v_factor |-> max_v_factor],
                      sof.components)
       IN  IF chk = "ok"
           THEN /\ ppbuf' = Some(r.buf)
                /\ max_h_factor' = r.max_h_factor
                /\ max_v_factor' = r.max_v_factor
                /\ Continue("ok")
           ELSE /\ UNCHANGED <<ppbuf, max_h_factor, max_v_factor>>
                /\ Return(chk)
    /\ UNCHANGED <<dhtbuf, restart_interval, slice, iqbuf>>

\* variant: the first accepted scan is kept
SegSos_KeepFirst(sos) ==
    /\ Dispatch("Sos")
    /\ LET r == SosArm(sos, width, height, max_h_factor, max_v_factor,
                       restart_interval)
       IN  IF r.res = "ok"
           THEN /\ slice' = IF slice = None THEN r.slice ELSE slice
                /\ Continue("ok")
           ELSE /\ UNCHANGED slice
                /\ Return(r.res)
    /\ UNCHANGED <<dhtbuf, max_h_factor, max_v_factor, restart_interval,
                   ppbuf, iqbuf>>

SegSos(sos) ==
    /\ Dispatch("Sos")
    /\ LET r == SosArm(sos, width, height, max_h_factor, max_v_factor,
                       restart_interval)
       IN  IF r.res = "ok"
           THEN /\ slice' = r.slice
                /\ Continue("ok")
           ELSE /\ UNCHANGED slice
                /\ Return(r.res)
    /\ UNCHANGED <<dhtbuf, max_h_factor, max_v_factor, restart_interval,
                   ppbuf, iqbuf>>

\* variant: a marker the match does not know is an error
SegOther_Rejected(marker) ==
    /\ Dispatch(marker)
    /\ Continue(IF marker = "Soi" THEN "ok" ELSE "E_PARSER")
    /\ UNCHANGED locals

\* any other segment: the `_ => {}` arm
SegOther(marker) ==
    /\ Dispatch(marker)
    /\ Continue("ok")
    /\ UNCHANGED locals

\* the loop is left (EOI, or next_segment returned None): the two let-else,
\* then on to the creation of the buffers
LeaveLoop(how) ==
    /\ loopExit' = how
    /\ LET c == Completeness(ppbuf, slice)
       IN  IF c = "ok"
           THEN /\ pc' = "create"
                /\ result' = result
           ELSE Return(c)
    /\ UNCHANGED <<session, locals, libva, standalone>>

\* variant: EOI falls into the `_ => {}` arm and the loop goes on
SegEoi_Ignored ==
    /\ Dispatch("Eoi")
    /\ Continue("ok")
    /\ UNCHANGED locals

SegEoi ==
    /\ pc = "loop"
    /\ nseg' = nseg + 1
    /\ seen' = seen \cup {"Eoi"}
    /\ UNCHANGED <<sofSeen, sosSeen>>
    /\ LeaveLoop("eoi")

EndOfInput ==
    /\ pc = "loop"
    /\ UNCHANGED <<nseg, sofSeen, sosSeen, seen>>
    /\ LeaveLoop("eof")

\* next_segment returned Err: the `?` returns it
ParserError ==
    /\ pc = "loop"
    /\ Return("E_PARSER")
    /\ UNCHANGED <<session, locals, libva, history, standalone>>

(***************************************************************************)
(* Hand-off to libva.  Every call can fail (check(...)?), which returns    *)
(* the error from decode at that point.                                    *)
(***************************************************************************)
BufferTypes ==
    <<"HuffmanTable", "IQMatrix", "PictureParameter", "SliceParameter",
      "SliceData">>

\* the content of the k-th buffer decode creates
BufferContent(k) ==
    CASE k = 1 -> [type |-> BufferTypes[1], huffman |-> dhtbuf]
      [] k = 2 -> [type |-> BufferTypes[2], iq |-> iqbuf]
      [] k = 3 -> [type |-> BufferTypes[3], picture |-> ppbuf[1]]
      [] k = 4 -> [type |-> BufferTypes[4], slice |-> slice[1].params]
      [] k = 5 -> [type |-> BufferTypes[5], data |-> slice[1].data]

\* Buffer::new_param / Buffer::new_data
NewBuffer(ok) ==
    /\ pc = "create"
    /\ IF ok
       THEN /\ buffers' = Append(buffers, BufferContent(Len(buffers) + 1))
            /\ pc' = IF Len(buffers) + 1 = Len(BufferTypes) THEN "begin" ELSE "create"
            /\ result' = result
       ELSE /\ UNCHANGED buffers
            /\ Return("E_VA")
    /\ UNCHANGED <<session, locals, picture, rendered, history, standalone>>

\* Context::begin_picture
BeginPicture(ok) ==
    /\ pc = "begin"
    /\ IF ok
       THEN /\ picture' = "begun"
            /\ pc' = "render"
            /\ result' = result
       ELSE /\ UNCHANGED picture
            /\ Return("E_VA")
    /\ UNCHANGED <<session, locals, buffers, rendered, history, standalone>>

\* InProgressPicture::render_picture, in the order of the five calls
RenderPicture(ok) ==
    /\ pc = "render"
    /\ IF ok
       THEN /\ rendered' = Append(rendered, buffers[Len(rendered) + 1])
            /\ pc' = IF Len(rendered) + 1 = Len(BufferTypes) THEN "end" ELSE "render"
            /\ result' = result
       ELSE /\ UNCHANGED rendered
            /\ Return("E_VA")
    /\ UNCHANGED <<session, locals, buffers, picture, history, standalone>>

\* InProgressPicture::end_picture, then Ok(&mut self.jpeg_surface)
EndPicture(ok) ==
    /\ pc = "end"
    /\ IF ok
       THEN /\ picture' = "ended"
            /\ Return("Ok")
       ELSE /\ UNCHANGED picture
            /\ Return("E_VA")
    /\ UNCHANGED <<session, locals, buffers, rendered, history, standalone>>

Next ==
    \/ Decode
    \/ \E tables \in DqtLists : SegDqt(tables)
    \/ \E tables \in DhtLists : SegDht(tables)
    \/ \E Ri \in RiVals : SegDri(Ri)
    \/ \E sof \in SofVals : SegSof(sof)
    \/ \E sos \in SosVals : SegSos(sos)
    \/ \E marker \in OtherMarkers : SegOther(marker)
    \/ SegEoi
    \/ EndOfInput
    \/ ParserError
    \/ \E ok \in BOOLEAN : NewBuffer(ok)
    \/ \E ok \in BOOLEAN : BeginPicture(ok)
    \/ \E ok \in BOOLEAN : RenderPicture(ok)
    \/ \E ok \in BOOLEAN : EndPicture(ok)

Spec == Init /\ [][Next]_vars

(***************************************************************************)
(* decode on a 16 x 16 session over inputs that define a slot more than    *)
(* once, carry several restart intervals and scans, and frames of another  *)
(* width or height.                                                        *)
(***************************************************************************)
FoldDqtTableVals ==
    { [Pq |-> 0, Tq |-> 0, Qk |-> QkA],
      [Pq |-> 0, Tq |-> 0, Qk |-> [i \in 1..QK_LEN |-> QK_LEN + 1 - i]],
      [Pq |-> 0, Tq |-> 1, Qk |-> [i \in 1..QK_LEN |-> QK_LEN + 1 - i]] }

\* a table of three values
LiThree == [i \in 1..NUM_CODE_LENGTHS |-> IF i = 2 THEN 3 ELSE 0]
VijThree == <<21, 22, 23>>

\* DC slot 0 with three values and with one, AC slot 0, and a DC table of
\* 13 values for slot 1
FoldDhtTableVals ==
    { [Tc |-> 0, Th |-> 0, Li |-> LiThree, Vij |-> VijThree],
      [Tc |-> 0, Th |-> 0, Li |-> LiShort, Vij |-> VijShort],
      [Tc |-> 1, Th |-> 0, Li |-> LiShort, Vij |-> VijShort],
      [Tc |-> 0, Th |-> 1, Li |-> LiLong,  Vij |-> VijLong] }

FoldDqtLists == TableLists(FoldDqtTableVals)
FoldDhtLists == TableLists(FoldDhtTableVals)
FoldRiVals == {5, 7}

\* baseline frames of the session's size, of another height, of another width
FoldSofVals ==
    { [sof |-> SOF0, P |-> 8, Y |-> d[2], X |-> d[1],
       components |-> <<FrameComponent(1, <<2, 1>>)>>] :
        d \in {<<16, 16>>, <<16, 9>>, <<17, 16>>} }

\* two baseline scans that differ in components and data
FoldSosVals ==
    { [components |-> ScanComponentList(1), Ss |-> 0, Se |-> 63,
       Ah |-> 0, Al |-> 0, data |-> <<1>>],
      [components |-> ScanComponentList(2), Ss |-> 0, Se |-> 63,
       Ah |-> 0, Al |-> 0, data |-> <<1, 255, 0>>] }

InitFold ==
    /\ SessionInit
    /\ width = 16
    /\ height = 16
    /\ BuildersInit
    /\ ScannerIdle
    /\ InfoIdle

NextFold ==
    \/ Decode
    \/ \E tables \in FoldDqtLists : SegDqt(tables)
    \/ \E tables \in FoldDhtLists : SegDht(tables)
    \/ \E Ri \in FoldRiVals : SegDri(Ri)
    \/ \E sof \in FoldSofVals : SegSof(sof)
    \/ \E sos \in FoldSosVals : SegSos(sos)
    \/ SegEoi
    \/ \E ok \in BOOLEAN : NewBuffer(ok)
    \/ \E ok \in BOOLEAN : BeginPicture(ok)
    \/ \E ok \in BOOLEAN : RenderPicture(ok)
    \/ \E ok \in BOOLEAN : EndPicture(ok)

SpecFold == InitFold /\ [][NextFold]_vars

(***************************************************************************)
(* The table builders on their own: any sequence of calls of their public  *)
(* methods.  A failed assert! aborts the program: no call follows it.      *)
(***************************************************************************)
QkB == [i \in 1..QK_LEN |-> QK_LEN + 1 - i]
BuilderQkVals == {QkA, QkB}
BuilderQuantIndexes == 0..NUM_QUANT_SLOTS
BuilderHuffIndexes == 0..NUM_HUFF_SLOTS
\* what the caller does with the &mut HuffmanTable it was given
BuilderHuffWrites == {"none", "dc"}

BuilderCall ==
    /\ pc = "idle"
    /\ bresult \in {"none", "ok"}
    /\ UNCHANGED <<session, pc, locals, libva, result, history, scanner,
                   info>>

\* IQMatrixBuffer::set_quantization_table
IqSet(index, table_data) ==
    /\ BuilderCall
    /\ IF set_quantization_table_asserts(index)
       THEN /\ qbuilder' = set_quantization_table(qbuilder, index, table_data)
            /\ qwritten' = qwritten \cup {index}
            /\ bresult' = "ok"
       ELSE /\ bresult' = "PANIC_IQ_INDEX"
            /\ UNCHANGED <<qbuilder, qwritten>>
    /\ UNCHANGED <<hbuilder, hwritten>>

\* HuffmanTableBuffer::set_huffman_table
HuffSet(index, tbl) ==
    /\ BuilderCall
    /\ IF huffman_index_asserts(index)
       THEN /\ hbuilder' = set_huffman_table(hbuilder, index, tbl)
            /\ hwritten' = hwritten \cup {index}
            /\ bresult' = "ok"
       ELSE /\ bresult' = "PANIC_HUFF_INDEX"
            /\ UNCHANGED <<hbuilder, hwritten>>
    /\ UNCHANGED <<qbuilder, qwritten>>

\* HuffmanTableBuffer::huffman_table_mut, and the caller's use of the
\* reference it returns
HuffMut(index, write) ==
    /\ BuilderCall
    /\ IF huffman_index_asserts(index)
       THEN LET marked == huffman_table_mut_mark(hbuilder, index)
            IN  /\ hbuilder' =
                      IF write = "dc"
                      THEN [marked EXCEPT !.huffman_table[index] =
                               set_dc_table(@, LiShort, VijShort)]
                      ELSE marked
                /\ hwritten' = hwritten \cup {index}
                /\ bresult' = "ok"
       ELSE /\ bresult' = "PANIC_HUFF_INDEX"
            /\ UNCHANGED <<hbuilder, hwritten>>
    /\ UNCHANGED <<qbuilder, qwritten>>

\* HuffmanTableBuffer::clear_modified
HuffClear ==
    /\ BuilderCall
    /\ hbuilder' = clear_modified(hbuilder)
    /\ hwritten' = {}
    /\ bresult' = "ok"
    /\ UNCHANGED <<qbuilder, qwritten>>

NextBuilders ==
    \/ \E index \in BuilderQuantIndexes, table_data \in BuilderQkVals :
          IqSet(index, table_data)
    \/ \E index \in BuilderHuffIndexes : HuffSet(index, default_luminance)
    \/ \E index \in BuilderHuffIndexes, write \in BuilderHuffWrites :
          HuffMut(index, write)
    \/ HuffClear

SpecBuilders == Init /\ [][NextBuilders]_vars

(***************************************************************************)
(* The marker scanner, JpegParser::next_segment.  Offsets are counted from *)
(* 0 as in the source; jpeg[a..b] is Slice(jpeg, a, b).                    *)
(***************************************************************************)
MARKER_PREFIX == 255
RST0 == 208
RST7 == 215
SOI == 216
EOI == 217
SOS == 218
APP0 == 224

ByteAt(buf, i) == buf[i + 1]
Slice(buf, a, b) == SubSeq(buf, a + 1, b)

\* markers that stand alone, without a length field
IsStandalone(marker) == marker \in {SOI, EOI} \cup (RST0..RST7)
IsRestart(marker) == marker \in RST0..RST7

\* offset of the next marker at or after `from`: 0xFF followed by a byte
\* that is neither stuffing (0x00) nor fill (0xFF); Len(buf) when none is left
RECURSIVE FindMarker(_, _)
FindMarker(buf, from) ==
    IF from + 1 >= Len(buf) THEN Len(buf)
    ELSE IF ByteAt(buf, from) = MARKER_PREFIX
            /\ ByteAt(buf, from + 1) \notin {0, MARKER_PREFIX}
    THEN from
    ELSE FindMarker(buf, from + 1)

\* the big-endian length field of the segment whose marker is at pos
SegmentLength(buf, pos) == ByteAt(buf, pos + 2) * 256 + ByteAt(buf, pos + 3)

\* variant: the length is taken to count the marker and the field itself
PayloadEnd_FromPayloadStart(pos, length) == pos + 4 + length

\* the payload is buffer[pos+4 .. pos+2+length]
PayloadEnd(pos, length) == pos + 2 + length

\* end of the entropy-coded data that starts at `from`: the first 0xFF
\* followed by a byte that is neither 0x00 nor a restart marker; stuffed
\* bytes and restart markers are stepped over as pairs
RECURSIVE ScanDataEnd(_, _)
ScanDataEnd(buf, from) ==
    IF from >= Len(buf) THEN Len(buf)
    ELSE IF ByteAt(buf, from) # MARKER_PREFIX THEN ScanDataEnd(buf, from + 1)
    ELSE IF from + 1 >= Len(buf) THEN Len(buf)
    ELSE IF ByteAt(buf, from + 1) = 0 \/ IsRestart(ByteAt(buf, from + 1))
    THEN ScanDataEnd(buf, from + 2)
    ELSE from

NoSegment == [pos |-> 0, marker |-> 0, payload |-> <<>>, data |-> <<>>]

\* one call of the scanner with the cursor at cur: Some(segment) and the
\* new cursor, None at the end of the input, or Err
next_segment(buf, cur) ==
    LET pos == FindMarker(buf, cur)
    IN  IF pos >= Len(buf)
        THEN [tag |-> "None", segment |-> NoSegment, cursor |-> cur]
        ELSE LET marker == ByteAt(buf, pos + 1)
             IN  IF IsStandalone(marker)
                 THEN [tag |-> "Some",
                       segment |-> [pos |-> pos, marker |-> marker,
                                    payload |-> <<>>, data |-> <<>>],
                       cursor |-> pos + 2]
                 ELSE IF pos + 4 > Len(buf)
                 THEN [tag |-> "UnexpectedEof", segment |-> NoSegment,
                       cursor |-> cur]
                 ELSE IF SegmentLength(buf, pos) < 2
                 THEN [tag |-> "MalformedSegment", segment |-> NoSegment,
                       cursor |-> cur]
                 ELSE LET end == PayloadEnd(pos, SegmentLength(buf, pos))
                      IN  IF end > Len(buf)
                          THEN [tag |-> "UnexpectedEof",
                                segment |-> NoSegment, cursor |-> cur]
                          ELSE IF marker = SOS
                          THEN [tag |-> "Some",
                                segment |->
                                    [pos |-> pos, marker |-> marker,
                                     payload |-> Slice(buf, pos + 4, end),
                                     data |-> Slice(buf, end,
                                                    ScanDataEnd(buf, end))],
                                cursor |-> ScanDataEnd(buf, end)]
                          ELSE [tag |-> "Some",
                                segment |->
                                    [pos |-> pos, marker |-> marker,
                                     payload |-> Slice(buf, pos + 4, end),
                                     data |-> <<>>],
                                cursor |-> end]

(***************************************************************************)
(* Inputs: byte buffers put together from at most MaxChunks pieces.        *)
(***************************************************************************)
Chunks ==
    { <<MARKER_PREFIX, SOI>>,
      <<MARKER_PREFIX, EOI>>,
      <<MARKER_PREFIX, APP0, 0, 3>>,   \* a segment of one payload byte
      <<MARKER_PREFIX, APP0, 0, 1>>,   \* a length field below 2
      <<MARKER_PREFIX, SOS, 0, 2>>,    \* a scan header with no fields
      <<7>>,                           \* a byte of data
      <<MARKER_PREFIX, 0>>,            \* a stuffed 0xFF
      <<MARKER_PREFIX, RST0>> }        \* a restart marker

RECURSIVE Concat(_)
Concat(chunks) ==
    IF chunks = <<>> THEN <<>> ELSE Head(chunks) \o Concat(Tail(chunks))

JpegInputs ==
    { Concat(cs) : cs \in UNION { [1..n -> Chunks] : n \in 0..MaxChunks } }

\* variant: an error of the scanner ends the loop like the end of the input
NextSegment_ErrEndsLoop ==
    /\ spc = "loop"
    /\ LET r == next_segment(jpeg, cursor)
       IN  IF r.tag = "Some"
           THEN /\ segs' = Append(segs, r.segment)
                /\ cursor' = r.cursor
                /\ IF r.segment.marker = EOI
                   THEN spc' = "done" /\ sresult' = "Eoi"
                   ELSE spc' = "loop" /\ sresult' = sresult
           ELSE /\ spc' = "done"
                /\ sresult' = "None"
                /\ UNCHANGED <<cursor, segs>>
    /\ UNCHANGED <<jpeg, slice_data, session, pc, locals, libva, result,
                   history, builders, info>>

\* variant: the parser is made anew for every call
NextSegment_NewParser ==
    /\ spc = "loop"
    /\ LET r == next_segment(jpeg, 0)
       IN  IF r.tag = "Some"
           THEN /\ segs' = Append(segs, r.segment)
                /\ cursor' = r.cursor
                /\ IF r.segment.marker = EOI
                   THEN spc' = "done" /\ sresult' = "Eoi"
                   ELSE spc' = "loop" /\ sresult' = sresult
           ELSE /\ spc' = "done"
                /\ sresult' = r.tag
                /\ UNCHANGED <<cursor, segs>>
    /\ UNCHANGED <<jpeg, slice_data, session, pc, locals, libva, result,
                   history, builders, info>>

\* one turn of `while let Some(segment) = parser.next_segment()?`: Err is
\* returned by the `?`, None ends the loop, and so does the break of the
\* EOI arm
NextSegment ==
    /\ spc = "loop"
    /\ LET r == next_segment(jpeg, cursor)
       IN  IF r.tag = "Some"
           THEN /\ segs' = Append(segs, r.segment)
                /\ cursor' = r.cursor
                /\ IF r.segment.marker = EOI
                   THEN spc' = "done" /\ sresult' = "Eoi"
                   ELSE spc' = "loop" /\ sresult' = sresult
           ELSE /\ spc' = "done"
                /\ sresult' = r.tag
                /\ UNCHANGED <<cursor, segs>>
    /\ UNCHANGED <<jpeg, slice_data, session, pc, locals, libva, result,
                   history, builders, info>>

\* examples/jpeg-decode.rs reads the segments with the jfifdump crate, whose
\* segment.position is the offset just after the segment's marker
jfif_position(pos) == pos + 2

\* examples/jpeg-decode.rs: the Scan arm keeps segment.position - 2, the Eoi
\* arm keeps segment.position, and the slice data is
\* jpeg[sos_pos + sos_len + 2 .. eoi]
example_slice_data(buf, scan_position, eoi_position) ==
    LET sos_pos == scan_position - 2
        sos_len == SegmentLength(buf, sos_pos)
        eoi     == eoi_position
    IN  Slice(buf, sos_pos + sos_len + 2, eoi)

\* indexes in segs of the scan segments
ScanIndexes == {k \in 1..Len(segs) : segs[k].marker = SOS}

\* the example's loop has met EOI holding a scan: it cuts out the slice data
ExampleSliceData ==
    /\ spc = "done"
    /\ sresult = "Eoi"
    /\ ScanIndexes # {}
    /\ LET k == CHOOSE i \in ScanIndexes : \A j \in ScanIndexes : j <= i
       IN  slice_data' =
               example_slice_data(jpeg, jfif_position(segs[k].pos),
                                  jfif_position(segs[Len(segs)].pos))
    /\ spc' = "sliced"
    /\ UNCHANGED <<jpeg, cursor, sresult, segs, session, pc, locals, libva,
                   result, history, builders, info>>

\* decode(jpeg): JpegParser::new(&jpeg), with the loop about to start
InitScan ==
    /\ SessionInit
    /\ width = 16
    /\ BuildersInit
    /\ InfoIdle
    /\ slice_data = <<>>
    /\ jpeg \in JpegInputs
    /\ cursor = 0
    /\ spc = "loop"
    /\ sresult = "none"
    /\ segs = <<>>

NextScan ==
    \/ NextSegment
    \/ ExampleSliceData

SpecScan == InitScan /\ [][NextScan]_vars

\* the loop is not abandoned half way: a turn that can be taken is taken
SpecScanFair == SpecScan /\ WF_vars(NextSegment)

(***************************************************************************)
(* JpegInfo::new over what next_segment returns call by call.              *)
(***************************************************************************)
\* segments other than a frame header
InfoKinds == {"Soi", "App0", "Eoi"}
\* Some(segment) of a kind, Some(frame header), None, or Err
InfoReturns ==
    {[tag |-> "Some", kind |-> k, sof |-> None] : k \in InfoKinds}
      \cup {[tag |-> "Some", kind |-> "Sof", sof |-> Some(f)] : f \in SofVals}
      \cup {[tag |-> t, kind |-> "none", sof |-> None] : t \in {"None", "Err"}}

InfoError(e) == [tag |-> e, width |-> 0, height |-> 0]

InfoReturn(res) ==
    /\ ipc' = "done"
    /\ iresult' = res

\* variant: the first segment is taken whatever its kind
InfoFirst_AnyFirst(r) ==
    /\ ipc = "soi"
    /\ ifirst' = IF r.tag = "Some" THEN r.kind ELSE r.tag
    /\ IF r.tag = "Err" THEN InfoReturn(InfoError("E_PARSER"))
       ELSE IF r.tag = "None" THEN InfoReturn(InfoError("E_MISSING_SOI"))
       ELSE /\ ipc' = "sof"
            /\ iresult' = iresult
    /\ UNCHANGED <<ipassed, isof, session, pc, locals, libva, result,
                   history, builders, scanner>>

\* the first next_segment()?, ok_or_else and the matches! on Soi
InfoFirst(r) ==
    /\ ipc = "soi"
    /\ ifirst' = IF r.tag = "Some" THEN r.kind ELSE r.tag
    /\ IF r.tag = "Err" THEN InfoReturn(InfoError("E_PARSER"))
       ELSE IF r.tag = "None" THEN InfoReturn(InfoError("E_MISSING_SOI"))
       ELSE IF r.kind # "Soi" THEN InfoReturn(InfoError("E_MISSING_SOI"))
       ELSE /\ ipc' = "sof"
            /\ iresult' = iresult
    /\ UNCHANGED <<ipassed, isof, session, pc, locals, libva, result,
                   history, builders, scanner>>

\* the checks on the frame header the loop broke with, and the Ok
InfoOfSof(sof) ==
    IF sof.sof # SOF0 THEN InfoError("E_NOT_BASELINE")
    ELSE IF sof.P # 8 THEN InfoError("E_PRECISION")
    ELSE [tag |-> "Ok", width |-> sof.X, height |-> sof.Y]

\* one turn of the loop that looks for the frame header; on `break sof` the
\* rest of the function runs without reading more
InfoLoop(r) ==
    /\ ipc = "sof"
    /\ IF r.tag = "Err"
       THEN InfoReturn(InfoError("E_PARSER")) /\ UNCHANGED <<ipassed, isof>>
       ELSE IF r.tag = "None"
       THEN InfoReturn(InfoError("E_MISSING_SOF")) /\ UNCHANGED <<ipassed, isof>>
       ELSE IF r.kind = "Sof"
       THEN /\ isof' = r.sof
            /\ InfoReturn(InfoOfSof(r.sof[1]))
            /\ UNCHANGED ipassed
       ELSE /\ Len(ipassed) < MaxSegs
            /\ ipassed' = Append(ipassed, r.kind)
            /\ UNCHANGED <<ipc, isof, iresult>>
    /\ UNCHANGED <<ifirst, session, pc, locals, libva, result, history,
                   builders, scanner>>

\* JpegInfo::new(jpeg): JpegParser::new(&jpeg), the first segment is read next
InitInfo ==
    /\ SessionInit
    /\ width = 16
    /\ BuildersInit
    /\ ScannerIdle
    /\ ipc = "soi"
    /\ ifirst = "none"
    /\ ipassed = <<>>
    /\ isof = None
    /\ iresult = NoInfo

NextInfo ==
    \/ \E r \in InfoReturns : InfoFirst(r)
    \/ \E r \in InfoReturns : InfoLoop(r)

SpecInfo == InitInfo /\ [][NextInfo]_vars

TypeOK ==
    /\ pc \in {"idle", "loop", "create", "begin", "render", "end", "done"}
    /\ nseg \in 0..(MaxSegs + 1)

(***************************************************************************)
(* Error taxonomy: the classes the errors of decode fall in.               *)
(***************************************************************************)
TruncatedImage   == {"E_MISSING_SOF", "E_MISSING_SOS"}
UnsupportedCodec == {"E_NOT_BASELINE", "E_PRECISION", "E_SOS_SPECTRAL", "E_SOS_APPROX"}
MalformedSegment == {"E_DQT_PQ", "E_DHT_SLOT", "E_DHT_CLASS"}

\* nothing has been handed to, or created in, the external session
NothingSubmitted(bufs, pic, rend) == bufs = <<>> /\ pic = "none" /\ rend = <<>>

(***************************************************************************)
(* Properties.                                                             *)
(***************************************************************************)

\* ceil(a / b) as the least n with n * b >= a
CeilDiv(a, b) ==
    CHOOSE n \in 0..a : n * b >= a /\ \A m \in 0..a : m * b >= a => n <= m

RECURSIVE MaxOver(_, _)
MaxOver(comps, field) ==
    IF comps = <<>> THEN 0
    ELSE Max(Head(comps)[field], MaxOver(Tail(comps), field))

\* C1: for the frame whose picture parameters are built into the picture-
\* parameter block, with W x H its size and Hmax, Vmax >= 1 the maxima of its
\* components' sampling factors, the num_mcus of the slice-parameter block is
\* ceil(W / (8 * Hmax)) * ceil(H / (8 * Vmax)).
C1_NumMcusOfAcceptedFrame ==
    Len(buffers) >= 4 =>
        LET pp   == buffers[3].picture
            Hmax == MaxOver(pp.components, "h_sampling_factor")
            Vmax == MaxOver(pp.components, "v_sampling_factor")
        IN  (Hmax >= 1 /\ Vmax >= 1) =>
                buffers[4].slice.num_mcus =
                    CeilDiv(pp.picture_width, 8 * Hmax)
                    * CeilDiv(pp.picture_height, 8 * Vmax)

\* C2: a block is created in or handed to the external session only if
\* exactly one SOF and at least one SOS were among the segments dispatched.
C2_SubmitOnlyAfterOneSofAndSos ==
    ~NothingSubmitted(buffers, picture, rendered) =>
        (sofSeen = 1 /\ sosSeen >= 1)

\* C3: when the loop is left (EOI or end of input) and no SOF, or no SOS, was
\* seen, decode returns a TruncatedImage error and nothing is submitted.
C3_TruncatedImage ==
    (loopExit # "none" /\ (sofSeen = 0 \/ sosSeen = 0)) =>
        /\ pc = "done"
        /\ result \in TruncatedImage
        /\ NothingSubmitted(buffers, picture, rendered)

\* an input of SOI only has failed with the missing-frame error
C3_SoiOnlyFails ==
    /\ nseg = 1
    /\ seen = {"Soi"}
    /\ loopExit = "eof"
    /\ result = "E_MISSING_SOF"

\* C4: the hand-off is all-or-nothing and ordered: an operation is begun only
\* with all five blocks built, and once the call has returned either nothing
\* was handed off and no operation is open, or the five blocks were handed
\* off in order and the operation was ended.
C4_AllOrNothing ==
    /\ picture # "none" => Len(buffers) = Len(BufferTypes)
    /\ \A k \in 1..Len(rendered) : rendered[k].type = BufferTypes[k]
    /\ pc = "done" =>
           \/ rendered = <<>> /\ picture = "none"
           \/ Len(rendered) = Len(BufferTypes) /\ picture = "ended"

\* C5: when no DHT segment was dispatched, the Huffman-table block handed
\* off holds the default tables.
C5_DefaultTablesWithoutDht ==
    (rendered # <<>> /\ "Dht" \notin seen) => rendered[1].huffman = default_tables

\* a DHT table that is stored whole, so that the loop goes on to the next one
DhtStored(t) ==
    /\ t.Th \in {0, 1}
    /\ \/ t.Tc = 0 /\ Len(t.Vij) <= DC_VALUES_CAP
       \/ t.Tc = 1 /\ Len(t.Vij) <= AC_VALUES_CAP

\* C6: when the DHT arm comes to a table whose destination is above 1 or
\* whose class is neither 0 nor 1, decode returns an error, no slot holds a
\* default table and nothing is submitted.
C6_BadDhtIsHardError ==
    [][(pc = "loop" /\ seen' = seen \cup {"Dht"}) =>
       \A tables \in DhtLists :
          (\E i \in 1..Len(tables) :
              /\ tables[i].Th > 1 \/ tables[i].Tc \notin {0, 1}
              /\ \A j \in 1..(i - 1) : DhtStored(tables[j]))
          => \/ /\ pc' = "done"
                /\ result' \in {"E_DHT_SLOT", "E_DHT_CLASS"}
                /\ \A k \in 0..(NUM_HUFF_SLOTS - 1) :
                      dhtbuf'.huffman_table[k] \notin
                          {default_luminance, default_chrominance}
                /\ NothingSubmitted(buffers', picture', rendered')
             \/ ~SegDht(tables)]_vars

\* a DHT table with destination 2 has made decode fail
C6_BadSlotRejected ==
    /\ pc = "done"
    /\ "Dht" \in seen
    /\ result = "E_DHT_SLOT"

\* C7: a SOF whose marker is not SOF0 or whose precision is not 8 makes
\* decode return an UnsupportedCodec error, the picture parameters stay as
\* they were, and the failed call dispatches nothing more.
C7_OnlyBaseline8Bit ==
    [][/\ (pc = "loop" /\ nseg' = nseg + 1) =>
          \A sof \in SofVals :
             (SegSof(sof) /\ (sof.sof # SOF0 \/ sof.P # 8))
             => /\ pc' = "done"
                /\ result' \in UnsupportedCodec
                /\ ppbuf' = ppbuf
                /\ NothingSubmitted(buffers', picture', rendered')
       /\ (pc = "done" /\ result \in UnsupportedCodec)
             => (pc' = "loop" /\ nseg' = 0 /\ ppbuf' = None /\ result' = "none")
      ]_vars

\* a SOF0 of 12-bit precision has made decode fail before any frame was accepted
C7_Precision12Rejected ==
    /\ pc = "done"
    /\ sofSeen = 1
    /\ result = "E_PRECISION"
    /\ ppbuf = None

\* C8: a SOS with Ss # 0, Se # 63, Ah # 0 or Al # 0 makes decode return an
\* UnsupportedCodec error (never the abort of the num_mcus division), and the
\* slice parameters stay as they were.
C8_OnlyBaselineScan ==
    [][(pc = "loop" /\ nseg' = nseg + 1) =>
       \A sos \in SosVals :
          (SegSos(sos) /\ ~(sos.Ss = 0 /\ sos.Se = 63 /\ sos.Ah = 0 /\ sos.Al = 0))
          => /\ pc' = "done"
             /\ result' \in {"E_SOS_SPECTRAL", "E_SOS_APPROX"}
             /\ result' \in UnsupportedCodec
             /\ slice' = slice
             /\ NothingSubmitted(buffers', picture', rendered')]_vars

\* a SOS with a non-zero Ah or Al was rejected while the maxima were still 0
C8_BadScanRejectedBeforeDivision ==
    /\ pc = "done"
    /\ sosSeen = 1
    /\ result = "E_SOS_APPROX"
    /\ max_h_factor = 0
    /\ slice = None

\* a DQT table that is stored, so that the loop goes on to the next one
DqtStored(t) == t.Pq = 0 /\ t.Tq <= 3

\* the quantization builder after the given tables were stored
RECURSIVE DqtStoreAll(_, _)
DqtStoreAll(iq, tables) ==
    IF tables = <<>> THEN iq
    ELSE DqtStoreAll(
             [load_quantiser_table |->
                  [iq.load_quantiser_table EXCEPT ![Head(tables).Tq] = 1],
              quantiser_table |->
                  [iq.quantiser_table EXCEPT ![Head(tables).Tq] = Head(tables).Qk]],
             Tail(tables))

\* C9: when the DQT arm comes to a table with Pq # 0, decode returns a
\* MalformedSegment error, the builder holds the tables before it and nothing
\* of that table, and nothing is submitted.
C9_BadPrecisionRejected ==
    [][(pc = "loop" /\ seen' = seen \cup {"Dqt"}) =>
       \A tables \in DqtLists :
          \A i \in 1..Len(tables) :
             (/\ tables[i].Pq # 0
              /\ \A j \in 1..(i - 1) : DqtStored(tables[j]))
             => \/ /\ pc' = "done"
                   /\ result' = "E_DQT_PQ"
                   /\ result' \in MalformedSegment
                   /\ iqbuf' = DqtStoreAll(iqbuf, SubSeq(tables, 1, i - 1))
                   /\ NothingSubmitted(buffers', picture', rendered')
                \/ ~SegDqt(tables)]_vars

\* a DQT whose first table has Pq = 1 was rejected with an untouched builder
C9_Precision1Rejected ==
    /\ pc = "done"
    /\ seen = {"Dqt"}
    /\ result = "E_DQT_PQ"
    /\ iqbuf = IQMatrixBuffer_new

\* C10: when the DQT arm comes to a table whose destination is above 3,
\* decode returns a MalformedSegment error (it is not aborted by the bounds
\* assertion of set_quantization_table).
C10_BadDestinationIsError ==
    [][(pc = "loop" /\ seen' = seen \cup {"Dqt"}) =>
       \A tables \in DqtLists :
          \A i \in 1..Len(tables) :
             (/\ tables[i].Tq > 3
              /\ \A j \in 1..(i - 1) : DqtStored(tables[j])
              /\ SegDqt(tables))
             => /\ pc' = "done"
                /\ result' \in MalformedSegment]_vars

\* the errors decode returns for the input (scanner or segment validation)
InputErrors ==
    {"E_PARSER", "E_DIMENSION"} \cup MalformedSegment \cup UnsupportedCodec
        \cup TruncatedImage

\* the locals of decode as created at its head
FreshLocals ==
    <<HuffmanTableBuffer_zeroed, 0, 0, 0, None, None, IQMatrixBuffer_new>>

\* C13: an input error ends the call at once with nothing handed over, and
\* the only step after it is a new call starting from fresh locals.
C13_ErrorsAreTerminal ==
    [][/\ (pc = "loop" /\ result' \in InputErrors) =>
             /\ pc' = "done"
             /\ NothingSubmitted(buffers', picture', rendered')
       /\ (pc = "done" /\ result \in InputErrors) =>
             /\ pc' = "loop"
             /\ result' = "none"
             /\ nseg' = 0
             /\ locals' = FreshLocals
             /\ NothingSubmitted(buffers', picture', rendered')]_vars

\* a frame of the wrong size failed the call after a DQT had been folded
C13_FailedAfterFolding ==
    /\ pc = "done"
    /\ result = "E_DIMENSION"
    /\ iqbuf # IQMatrixBuffer_new
    /\ NothingSubmitted(buffers, picture, rendered)

\* the picture-parameter components a frame header's components become
ExpectedFrameComponents(comps) ==
    [k \in 1..Len(comps) |->
        [component_id |-> comps[k].Ci,
         h_sampling_factor |-> comps[k].Hi,
         v_sampling_factor |-> comps[k].Vi,
         quantiser_table_selector |-> comps[k].Tqi]]

\* the slice-parameter components a scan header's components become
ExpectedScanComponents(comps) ==
    [i \in 0..(SCAN_COMPONENTS_CAP - 1) |->
        IF i < Len(comps)
        THEN [component_selector |-> comps[i + 1].Csj,
              dc_table_selector |-> comps[i + 1].Tdj,
              ac_table_selector |-> comps[i + 1].Taj]
        ELSE ScanComponent_zeroed]

\* C14: an accepted SOF of N components leaves picture parameters with
\* exactly those N components in file order and num_components = N; an
\* accepted SOS of N (at most 4) components leaves slice parameters with
\* exactly those N in file order; and the blocks created hold them.
C14_ComponentsInFileOrder ==
    [][/\ \A sof \in SofVals :
             (SofCheck(sof, width, height) = "ok") =>
                \/ /\ ppbuf' # None
                   /\ ppbuf'[1].num_components = Len(sof.components)
                   /\ ppbuf'[1].components =
                          ExpectedFrameComponents(sof.components)
                \/ ~SegSof(sof)
       /\ \A sos \in SosVals :
             (/\ SosCheck(sos) = "ok"
              /\ max_h_factor # 0 /\ max_v_factor # 0
              /\ Len(sos.components) <= SCAN_COMPONENTS_CAP) =>
                \/ /\ slice' # None
                   /\ slice'[1].params.num_components = Len(sos.components)
                   /\ slice'[1].params.components =
                          ExpectedScanComponents(sos.components)
                \/ ~SegSos(sos)
       /\ (pc = "create" /\ Len(buffers') = 3) =>
             buffers'[3].picture = ppbuf[1]
       /\ (pc = "create" /\ Len(buffers') = 4) =>
             buffers'[4].slice = slice[1].params]_vars

\* SOF0 (two components), SOS (two components), EOI was decoded: both blocks
\* handed over list their two components in file order
C14_TwoComponentsEmitted ==
    /\ result = "Ok"
    /\ sofSeen = 1 /\ sosSeen = 1
    /\ rendered[3].picture.num_components = 2
    /\ rendered[3].picture.components[1].component_id = 1
    /\ rendered[3].picture.components[2].component_id = 2
    /\ rendered[4].slice.num_components = 2
    /\ rendered[4].slice.components[0].component_selector = 1
    /\ rendered[4].slice.components[1].component_selector = 2

\* C15: a segment of any other kind raises no error and leaves the
\* quantization tables, Huffman tables, restart interval, sampling maxima,
\* picture parameters and slice parameters as they were.
C15_OtherSegmentsIgnored ==
    [][\A marker \in OtherMarkers :
          SegOther(marker) =>
             /\ pc' = "loop"
             /\ result' = "none"
             /\ locals' = locals]_vars

\* an APP0 segment was passed over in a call that holds a frame and a scan
C15_App0PassedOver ==
    /\ pc = "loop"
    /\ nseg = 3
    /\ seen = {"Sof", "Sos", "App0"}
    /\ ppbuf # None /\ slice # None

\* C16: EOI with a frame and a scan held ends the loop without an error, and
\* from then on no segment is dispatched in this call and the locals stay as
\* they were, so the blocks created are those of the state at EOI.
C16_StopAtEoi ==
    [][/\ (SegEoi /\ ppbuf # None /\ slice # None) =>
             (pc' = "create" /\ result' = "none" /\ locals' = locals)
       /\ "Eoi" \in seen =>
             \/ pc \notin {"loop"} /\ nseg' = nseg /\ locals' = locals
                   /\ result' \notin InputErrors
             \/ pc = "done" /\ pc' = "loop" /\ nseg' = 0]_vars

\* SOF0, SOS, EOI was decoded with success
C16_DecodedUpToEoi ==
    /\ result = "Ok"
    /\ loopExit = "eoi"
    /\ nseg = 3
    /\ sofSeen = 1 /\ sosSeen = 1

\* C21: a call that follows another call on the same session starts from
\* the state a first call starts from -- fresh tables, flags, restart
\* interval and sampling maxima, nothing created or handed over, no result
\* -- and no step changes the session's width or height; so what a call
\* emits or returns depends on its input and the session's size only.
C21_CallsAreIndependent ==
    [][/\ session' = session
       /\ (pc = "done" /\ pc' # "done") =>
             /\ pc' = "loop"
             /\ locals' = FreshLocals
             /\ libva' = <<<<>>, "none", <<>>>>
             /\ result' = "none"
             /\ history' = <<0, 0, 0, {}, "none">>]_vars

\* a call has returned Ok leaving a Huffman slot marked, a restart interval
\* and sampling maxima behind, and the next call is about to start
C21_CallLeftStateBehind ==
    /\ pc = "done"
    /\ result = "Ok"
    /\ restart_interval # 0
    /\ max_h_factor = 2
    /\ ppbuf # None /\ slice # None
    /\ rendered # <<>>

\* C22: JpegInfo::new returns Ok exactly when the first segment is SOI and
\* the frame header the loop found is SOF0 with precision 8, and the Ok
\* carries that header's width and height; otherwise it returns an error.
C22_InfoOkIffBaselineFrame ==
    ipc = "done" =>
        LET good == /\ ifirst = "Soi"
                    /\ isof # None
                    /\ isof[1].sof = SOF0
                    /\ isof[1].P = 8
        IN  /\ iresult.tag = "Ok" <=> good
            /\ good => /\ iresult.width = isof[1].X
                        /\ iresult.height = isof[1].Y
            /\ ~good => iresult.tag \in {"E_PARSER", "E_MISSING_SOI",
                                          "E_MISSING_SOF", "E_NOT_BASELINE",
                                          "E_PRECISION"}

\* SOI, APP0, EOI and then a baseline frame of 17 x 9: Ok(17, 9)
C22_SizeOfFrameAfterEoi ==
    /\ ipc = "done"
    /\ ifirst = "Soi"
    /\ ipassed = <<"App0", "Eoi">>
    /\ iresult = [tag |-> "Ok", width |-> 17, height |-> 9]

\* C23: a SOF whose width or height differs from the session's makes decode
\* fail with nothing handed over; when decode succeeds, the picture
\* parameters handed over carry the session's width and height.
C23_DimensionsMustMatch ==
    /\ [](result = "Ok" =>
             /\ rendered[3].picture.picture_width = width
             /\ rendered[3].picture.picture_height = height)
    /\ [][(pc = "loop" /\ nseg' = nseg + 1) =>
             \A sof \in FoldSofVals :
                (SegSof(sof) /\ (sof.X # width \/ sof.Y # height)) =>
                   /\ pc' = "done"
                   /\ result' \in InputErrors
                   /\ NothingSubmitted(buffers', picture', rendered')]_vars

\* after a frame of the session's size was accepted, a frame of another
\* size made the call fail
C23_SecondFrameOfOtherSize ==
    /\ pc = "done"
    /\ result = "E_DIMENSION"
    /\ sofSeen = 2
    /\ ppbuf # None
    /\ NothingSubmitted(buffers, picture, rendered)

\* index of the last table of the list that passes the test, 0 if none does
LastIndexWhere(tables, Test(_)) ==
    LET idx == {i \in 1..Len(tables) : Test(tables[i])}
    IN  IF idx = {} THEN 0 ELSE CHOOSE i \in idx : \A j \in idx : j <= i

IsPrefix(s, t) == Len(s) <= Len(t) /\ SubSeq(t, 1, Len(s)) = s

\* C24: the restart interval is that of the most recent DRI (0 before any),
\* only a DRI changes it, and an accepted SOS puts it into the slice
\* parameters, which are handed over as the SOS left them; after a DQT (DHT) each slot holds the
\* data of the last table of the segment addressing it, and is as it was
\* when none does -- wherever in the stream the segment stands.
C24_FoldedInStreamOrder ==
    [][/\ \A Ri \in FoldRiVals :
             SegDri(Ri) => (restart_interval' = Ri /\ pc' = "loop")
       /\ restart_interval' # restart_interval =>
             \/ pc = "loop" /\ nseg' = nseg + 1 /\ seen' = seen \cup {"Dri"}
             \/ pc' = "loop" /\ nseg' = 0 /\ restart_interval' = 0
       /\ (pc = "loop" /\ sosSeen' = sosSeen + 1 /\ pc' = "loop") =>
             slice'[1].params.restart_interval = restart_interval
       /\ (pc = "create" /\ Len(buffers') = 4) =>
             buffers'[4].slice.restart_interval =
                 slice[1].params.restart_interval
       /\ (pc = "loop" /\ seen' = seen \cup {"Dqt"}) =>
             \A tables \in FoldDqtLists :
                SegDqt(tables) =>
                   \A q \in 0..(NUM_QUANT_SLOTS - 1) :
                      LET i == LastIndexWhere(tables, LAMBDA t : t.Tq = q)
                      IN  iqbuf'.quantiser_table[q] =
                             IF i = 0 THEN iqbuf.quantiser_table[q]
                             ELSE tables[i].Qk
       /\ (pc = "loop" /\ seen' = seen \cup {"Dht"}) =>
             \A tables \in FoldDhtLists :
                (SegDht(tables) /\ pc' = "loop") =>
                   \A th \in 0..(NUM_HUFF_SLOTS - 1) :
                      LET dc  == LastIndexWhere(tables,
                                    LAMBDA t : t.Tc = 0 /\ t.Th = th)
                          ac  == LastIndexWhere(tables,
                                    LAMBDA t : t.Tc = 1 /\ t.Th = th)
                          old == dhtbuf.huffman_table[th]
                          new == dhtbuf'.huffman_table[th]
                      IN  /\ IF dc = 0
                             THEN /\ new.num_dc_codes = old.num_dc_codes
                                  /\ new.dc_values = old.dc_values
                             ELSE /\ new.num_dc_codes = tables[dc].Li
                                  /\ IsPrefix(tables[dc].Vij, new.dc_values)
                          /\ IF ac = 0
                             THEN /\ new.num_ac_codes = old.num_ac_codes
                                  /\ new.ac_values = old.ac_values
                             ELSE /\ new.num_ac_codes = tables[ac].Li
                                  /\ IsPrefix(tables[ac].Vij, new.ac_values)
      ]_vars

\* SOF, a DHT, SOS and EOI were decoded; DC slot 0 was defined with three
\* values and then with one, and the block handed over starts with the
\* later definition
C24_SlotDefinedTwice ==
    /\ result = "Ok"
    /\ seen = {"Sof", "Dht", "Sos", "Eoi"}
    /\ rendered[1].huffman.huffman_table[0].num_dc_codes = LiShort
    /\ rendered[1].huffman.huffman_table[0].dc_values[1] = 7
    /\ rendered[1].huffman.huffman_table[0].dc_values[2] = 22

\* C25: when a SOS passes the header checks, so that num_mcus is computed,
\* both sampling maxima are at least 1, or else (no SOF before it, or a SOF
\* whose factors are all 0) decode returns an error value.
C25_NoDivisionByZero ==
    [][(pc = "loop" /\ nseg' = nseg + 1) =>
          \A sos \in SosVals :
             (SegSos(sos) /\ SosCheck(sos) = "ok") =>
                \/ max_h_factor >= 1 /\ max_v_factor >= 1
                \/ pc' = "done" /\ result' \in InputErrors]_vars

\* C26: the slice parameters never count more than the 4 components their
\* array holds, the entries from num_components on are untouched, and a
\* scan of more than 4 components makes decode return an error value (taken
\* here with sampling maxima of at least 1, so that the scan gets as far as
\* its components).
C26_ScanComponentCapacity ==
    /\ [](slice # None =>
             /\ slice[1].params.num_components <= SCAN_COMPONENTS_CAP
             /\ DOMAIN slice[1].params.components =
                    0..(SCAN_COMPONENTS_CAP - 1)
             /\ \A i \in 0..(SCAN_COMPONENTS_CAP - 1) :
                    i >= slice[1].params.num_components =>
                       slice[1].params.components[i] = ScanComponent_zeroed)
    /\ [][(pc = "loop" /\ nseg' = nseg + 1) =>
             \A sos \in SosVals :
                (/\ SegSos(sos)
                 /\ max_h_factor >= 1 /\ max_v_factor >= 1
                 /\ Len(sos.components) > SCAN_COMPONENTS_CAP) =>
                   /\ pc' = "done"
                   /\ result' \in InputErrors]_vars

\* C30: when a SOS is accepted, the sampling maxima num_mcus is computed
\* from are the maxima over the components of the picture parameters held,
\* which are those of the last SOF of this call.
C30_MaximaOfTheFrameHeld ==
    [][(pc = "loop" /\ sosSeen' = sosSeen + 1 /\ pc' = "loop") =>
          /\ ppbuf # None
          /\ max_h_factor = MaxOver(ppbuf[1].components, "h_sampling_factor")
          /\ max_v_factor = MaxOver(ppbuf[1].components, "v_sampling_factor")
          /\ slice'[1].params.num_mcus =
                 NumMcus(width, height,
                         MaxOver(ppbuf[1].components, "h_sampling_factor"),
                         MaxOver(ppbuf[1].components, "v_sampling_factor"))
      ]_vars

ZeroPadded(v, n) == [i \in 1..n |-> IF i <= Len(v) THEN v[i] ELSE 0]

\* C27: after a DHT segment has been stored, a slot's DC (AC) counts and
\* values are exactly Li and Vij of the segment's last DC (AC) table for
\* that slot, zero-padded to 16 counts and 12 (162) values, whatever the
\* slot held before; with no such table in the segment they are unchanged.
C27_TableSetExactly ==
    [][(pc = "loop" /\ seen' = seen \cup {"Dht"}) =>
          \A tables \in FoldDhtLists :
             (SegDht(tables) /\ pc' = "loop") =>
                \A th \in 0..(NUM_HUFF_SLOTS - 1) :
                   LET dc  == LastIndexWhere(tables,
                                 LAMBDA t : t.Tc = 0 /\ t.Th = th)
                       ac  == LastIndexWhere(tables,
                                 LAMBDA t : t.Tc = 1 /\ t.Th = th)
                       old == dhtbuf.huffman_table[th]
                       new == dhtbuf'.huffman_table[th]
                   IN  /\ new.num_dc_codes =
                              IF dc = 0 THEN old.num_dc_codes
                              ELSE ZeroPadded(tables[dc].Li, NUM_CODE_LENGTHS)
                       /\ new.dc_values =
                              IF dc = 0 THEN old.dc_values
                              ELSE ZeroPadded(tables[dc].Vij, DC_VALUES_CAP)
                       /\ new.num_ac_codes =
                              IF ac = 0 THEN old.num_ac_codes
                              ELSE ZeroPadded(tables[ac].Li, NUM_CODE_LENGTHS)
                       /\ new.ac_values =
                              IF ac = 0 THEN old.ac_values
                              ELSE ZeroPadded(tables[ac].Vij, AC_VALUES_CAP)
      ]_vars

\* C28: when the DHT arm comes to a DC table of more than 12 values or an
\* AC table of more than 162, decode returns an error value, and what the
\* slot holds is not a truncated copy of that table.
C28_OversizedTableIsError ==
    [][(pc = "loop" /\ seen' = seen \cup {"Dht"}) =>
          \A tables \in FoldDhtLists :
             \A i \in 1..Len(tables) :
                (/\ \/ tables[i].Tc = 0 /\ Len(tables[i].Vij) > DC_VALUES_CAP
                    \/ tables[i].Tc = 1 /\ Len(tables[i].Vij) > AC_VALUES_CAP
                 /\ tables[i].Th \in {0, 1}
                 /\ \A j \in 1..(i - 1) : DhtStored(tables[j])
                 /\ SegDht(tables)) =>
                   /\ pc' = "done"
                   /\ result' \in InputErrors
                   /\ dhtbuf'.huffman_table[tables[i].Th].dc_values #
                          SubSeq(tables[i].Vij, 1, DC_VALUES_CAP)]_vars

\* C29: a valid SOS replaces the slice parameters and data held, also when
\* a scan is held already: selectors, restart interval, num_mcus and data
\* size are those of this SOS; a DQT or DHT read while a scan is held still
\* writes its tables; and the blocks created are the tables and the scan as
\* they stand when the loop is left.
C29_FoldedAfterTheScan ==
    /\ [](Len(buffers) = Len(BufferTypes) =>
             /\ buffers[1].huffman = dhtbuf
             /\ buffers[2].iq = iqbuf
             /\ buffers[4].slice = slice[1].params
             /\ buffers[5].data = slice[1].data)
    /\ [][/\ (pc = "loop" /\ nseg' = nseg + 1) =>
                \A sos \in FoldSosVals :
                   (SegSos(sos) /\ max_h_factor >= 1 /\ max_v_factor >= 1) =>
                      slice' = Some(
                        [params |->
                           [base |-> [slice_data_size   |-> Len(sos.data),
                                      slice_data_offset |-> 0,
                                      slice_data_flags  |-> "ALL"],
                            components |->
                                ExpectedScanComponents(sos.components),
                            num_components   |-> Len(sos.components),
                            restart_interval |-> restart_interval,
                            num_mcus |-> CeilDiv(width, 8 * max_h_factor)
                                         * CeilDiv(height, 8 * max_v_factor)],
                         data |-> sos.data])
          /\ (slice # None /\ pc = "loop" /\ seen' = seen \cup {"Dqt"}) =>
                \A tables \in FoldDqtLists :
                   SegDqt(tables) =>
                      LET t == tables[Len(tables)]
                      IN  /\ pc' = "loop"
                          /\ iqbuf'.quantiser_table[t.Tq] = t.Qk
                          /\ iqbuf'.load_quantiser_table[t.Tq] = 1
          /\ (slice # None /\ pc = "loop" /\ seen' = seen \cup {"Dht"}) =>
                \A tables \in FoldDhtLists :
                   (SegDht(tables) /\ pc' = "loop") =>
                      LET t == tables[Len(tables)]
                      IN  /\ dhtbuf'.load_huffman_table[t.Th] = 1
                          /\ IsPrefix(t.Vij,
                                 IF t.Tc = 0
                                 THEN dhtbuf'.huffman_table[t.Th].dc_values
                                 ELSE dhtbuf'.huffman_table[t.Th].ac_values)
         ]_vars

\* SOF and two SOS were decoded up to EOI, and the slice parameters and data
\* handed over are those of the scan of two components
C29_SecondScanSubmitted ==
    /\ result = "Ok"
    /\ sosSeen = 2
    /\ rendered[4].slice.num_components = 2
    /\ rendered[4].slice.base.slice_data_size = 3
    /\ rendered[5].data = <<1, 255, 0>>

\* an offset of jpeg at which a marker stands
IsMarkerAt(i) ==
    /\ i + 1 < Len(jpeg)
    /\ ByteAt(jpeg, i) = MARKER_PREFIX
    /\ ByteAt(jpeg, i + 1) \notin {0, MARKER_PREFIX}

\* the marker the scanner comes to from the cursor is at pos and has a
\* complete length field
LengthFieldAhead(pos) ==
    /\ pos >= cursor
    /\ IsMarkerAt(pos)
    /\ \A i \in cursor..(pos - 1) : ~IsMarkerAt(i)
    /\ ~IsStandalone(ByteAt(jpeg, pos + 1))
    /\ pos + 4 <= Len(jpeg)

BigEndian16(hi, lo) == hi * 256 + lo
LengthAt(pos) == BigEndian16(ByteAt(jpeg, pos + 2), ByteAt(jpeg, pos + 3))

\* C17: a segment yielded for a marker with a length field has a length of
\* at least 2 and its payload is exactly jpeg[pos+4 .. pos+2+length]; when
\* the marker the scanner comes to has a length below 2, the scanner fails
\* with MalformedSegment.
C17_SegmentFraming ==
    /\ \A k \in 1..Len(segs) :
          ~IsStandalone(segs[k].marker) =>
             LET pos == segs[k].pos
             IN  /\ LengthAt(pos) >= 2
                 /\ segs[k].payload =
                        [i \in 1..(LengthAt(pos) - 2) |->
                            ByteAt(jpeg, pos + 4 + (i - 1))]
    /\ (spc = "done" /\ sresult # "Eoi") =>
          \A pos \in 0..Len(jpeg) :
             (LengthFieldAhead(pos) /\ LengthAt(pos) < 2) =>
                sresult = "MalformedSegment"

\* a segment of one payload byte was yielded after another segment
C17_OneBytePayloadYielded ==
    \E k \in 2..Len(segs) :
        /\ segs[k].marker = APP0
        /\ LengthAt(segs[k].pos) = 3
        /\ segs[k].payload = <<7>>

\* C18: when the marker the scanner comes to declares more bytes than the
\* buffer still holds, the loop ends with UnexpectedEof; a payload yielded
\* is never shorter than declared and never reaches past the buffer.
C18_TruncatedIsUnexpectedEof ==
    /\ \A k \in 1..Len(segs) :
          ~IsStandalone(segs[k].marker) =>
             /\ segs[k].pos + 2 + LengthAt(segs[k].pos) <= Len(jpeg)
             /\ Len(segs[k].payload) = LengthAt(segs[k].pos) - 2
    /\ (spc = "done" /\ sresult # "Eoi") =>
          \A pos \in 0..Len(jpeg) :
             (/\ LengthFieldAhead(pos)
              /\ LengthAt(pos) >= 2
              /\ pos + 2 + LengthAt(pos) > Len(jpeg)) =>
                sresult = "UnexpectedEof"

\* after a first segment, a segment declaring one payload byte at the very
\* end of the buffer made the loop end with UnexpectedEof
C18_PayloadMissing ==
    /\ spc = "done"
    /\ sresult = "UnexpectedEof"
    /\ Len(segs) >= 1
    /\ LengthFieldAhead(Len(jpeg) - 4)
    /\ LengthAt(Len(jpeg) - 4) = 3

\* where the claim puts the end of the scan data that starts at `from`
FirstRealMarkerFrom(from) ==
    LET ends == {j \in from..(Len(jpeg) - 2) :
                    /\ ByteAt(jpeg, j) = MARKER_PREFIX
                    /\ ByteAt(jpeg, j + 1) # 0
                    /\ ~IsRestart(ByteAt(jpeg, j + 1))}
    IN  IF ends = {} THEN Len(jpeg)
        ELSE CHOOSE j \in ends : \A i \in ends : j <= i

\* the scan data of the scan segment segs[k], as the claim states it
ClaimedScanData(k) ==
    LET start == segs[k].pos + 2 + LengthAt(segs[k].pos)
    IN  Slice(jpeg, start, FirstRealMarkerFrom(start))

C20_ScannerProgress ==
    /\ [](\A k \in 1..(Len(segs) - 1) : segs[k].pos < segs[k + 1].pos)
    /\ [][Len(segs') > Len(segs) => cursor' > cursor]_vars
    /\ <>(spc # "loop")

\* three segments were yielded before the end of the input was reported
C20_ThreeSegmentsThenEnd ==
    /\ spc = "done"
    /\ sresult = "None"
    /\ Len(segs) = 3
    /\ cursor > segs[3].pos

\* the slots whose load flag is set
DirtySlots(flags) == {i \in DOMAIN flags : flags[i] # 0}

\* C11: set_quantization_table(i, data) with i in 0..3 leaves slot i holding
\* exactly data with its load flag set, and the contents and load flags of
\* the other three slots as they were.
C11_QuantizationRoundTrip ==
    [][\A index \in 0..3, table_data \in BuilderQkVals :
          IqSet(index, table_data) =>
             /\ qbuilder'.quantiser_table[index] = table_data
             /\ qbuilder'.load_quantiser_table[index] = 1
             /\ \A j \in (0..3) \ {index} :
                   /\ qbuilder'.quantiser_table[j] = qbuilder.quantiser_table[j]
                   /\ qbuilder'.load_quantiser_table[j] =
                          qbuilder.load_quantiser_table[j]]_vars

\* slot 0 was overwritten with the second pattern while slot 1 holds the
\* first and slot 2 was never written
C11_SlotOverwritten ==
    /\ qbuilder.quantiser_table[0] = QkB
    /\ qbuilder.quantiser_table[1] = QkA
    /\ DirtySlots(qbuilder.load_quantiser_table) = {0, 1}
    /\ qbuilder.quantiser_table[2] = Zeros(QK_LEN)

\* C12: in both builders the slots flagged are exactly the slots written
\* (set, or handed out mutably) since the builder was made or last cleared,
\* and a clear leaves the tables as they were.
C12_DirtyIsWrittenSinceClear ==
    /\ [](/\ DirtySlots(qbuilder.load_quantiser_table) = qwritten
          /\ DirtySlots(hbuilder.load_huffman_table) = hwritten)
    /\ [][HuffClear => hbuilder'.huffman_table = hbuilder.huffman_table]_vars

\* slot 0 was written and cleared, and slot 1 written after the clear
C12_WriteAfterClear ==
    /\ hbuilder.huffman_table[0] # HuffmanTable_zeroed
    /\ hbuilder.load_huffman_table[0] = 0
    /\ hwritten = {1}

====
